---- MODULE Spec2Model ----
(***************************************************************************)
(* A model of the AI Video Studio single-page application (src/index.tsx,  *)
(* first variant, lines 1-1307): the generation poller generateContent,    *)
(* the generate-click handler, the 'loadeddata' listener that saves the    *)
(* generated video, and the IndexedDB library store.                       *)
(*                                                                         *)
(* JavaScript runs one task at a time.  Every action below is one task:    *)
(* an event handler or the continuation of an await, run up to its next    *)
(* await.  The remote API, the timers, the media element and IndexedDB are *)
(* the environment: their answers are inputs drawn with \E.                *)
(***************************************************************************)
EXTENDS Integers, Sequences, FiniteSets, TLC

\* ------------------------------------------------------------------ bounds
\* accepted submissions per run
MaxSub == 2
\* not-done handles one operation may return before it must be done
MaxPolls == 2
\* records already in the database when the page is opened
MaxRecords == 2

\* ------------------------------------------------------- program constants
\* delay(5000) between two status fetches
PollDelayMs == 5000

Subs == 1..MaxSub

VARIABLES
  apiKey,             \* let apiKey: string | null; "" stands for null
  storedKey,          \* localStorage 'gemini-api-key'; "" when there is none
  envKey,             \* process.env.API_KEY; "" when there is none
  db,                 \* "opening" | "open" | "failed"; the variable db is set only when "open"
  store,              \* committed records of object store 'videos', in key order
  keyGen,             \* the store's autoIncrement key generator: the last key given
  txq,                \* the transactions on 'videos' not yet finished, in creation order
  base64data,         \* let base64data: the uploaded reference image, '' when none
  tab,                \* the active tab: "text" (text-to-video) or "image" (image-to-video)
  reading,            \* the files whose blobToBase64 read is pending
  selectedStylePrefix, \* let selectedStylePrefix
  customStyleValue,   \* let customStyleValue
  customActive,       \* customPromptButton has class 'active'
  currentVideoBlob,   \* let currentVideoBlob: Blob | null
  selectedMusicStyle, \* let selectedMusicStyle
  audioChecked,       \* audioSwitch.checked
  disabled,           \* per control of allInputs: disabled (or class 'disabled')
  loading,            \* generateButton has class 'loading'
  statusText,         \* statusEl.textContent
  videoSrc,           \* video.src: the blob the player shows, and whether its data has loaded
  listeners,          \* submissions whose once-'loadeddata' listener is registered on video
  currentSortOrder,   \* let currentSortOrder
  view,               \* the view that is not hidden
  libraryCards,       \* the cards of libraryGrid, in display order
  nSub,               \* accepted generate clicks so far
  basePrompt,         \* per submission: the click handler's const basePrompt
  pc,                 \* per submission: where its click handler / generateContent call is
  call,               \* per submission: the locals of its generateContent call
  progressCalls,      \* per submission: the values onProgress was invoked with, in order
  observed,           \* per submission: the handles the remote API returned, in order
  result,             \* per submission: how generateContent settled
  lpc,                \* per submission: where its 'loadeddata' listener is
  unhandled,          \* reasons of promise rejections nobody handled
  sortIn,             \* the array getAllVideos handed to the last library load
  sortUsed,           \* the sort order the last library load applied
  addResolved,        \* the records whose addVideoToLibrary promise has resolved
  sortAfter,          \* addResolved as it was when the last library load called getAllVideos
  apiKeyModal,        \* the API key dialog: "hidden", "open", or "initial" (open without Cancel)
  trimButtonHidden,   \* trimButton has class 'hidden'
  originalVideoBlob,  \* let originalVideoBlob: Blob | null
  ffmpeg,             \* let ffmpeg: "null", "importing" (null, imports pending), "created"
                      \* (new FFmpeg(), load pending), "failed" (load failed), "loaded"
  trimmerVisible,     \* trimmerUI lacks class 'hidden'
  tpc,                \* the trim-apply handler: "idle" or "trimming" (in its try block)
  startLeft,          \* startHandle.style.left in percent; -1 while it is ''
  endLeft,            \* endHandle.style.left in percent; -1 while it is ''
  previewAttached,    \* the 'timeupdate' and 'play' preview listeners are on the video
  trimmerInitialized  \* let trimmerInitialized: the drag handlers are attached

\* the upload form
UploadVars == << tab, reading >>

\* the selected video style
StyleVars == << selectedStylePrefix, customStyleValue, customActive >>

\* the state of the trimmer
TrimVars == << originalVideoBlob, ffmpeg, trimmerVisible, tpc, startLeft, endLeft,
              previewAttached, trimmerInitialized >>

vars == << apiKey, storedKey, envKey, db, store, keyGen, txq, base64data, UploadVars, StyleVars, currentVideoBlob,
           selectedMusicStyle, audioChecked, disabled, loading, statusText,
           videoSrc, listeners, currentSortOrder, view, libraryCards, nSub,
           basePrompt, pc,
           call, progressCalls, observed, result, lpc, unhandled, sortIn, sortUsed,
           addResolved, sortAfter, apiKeyModal, trimButtonHidden, TrimVars >>

\* ------------------------------------------------------------ JavaScript
\* String.prototype.includes
Includes(str, sub) ==
  \E i \in 1..(Len(str) - Len(sub) + 1) : SubSeq(str, i, i + Len(sub) - 1) = sub

\* String.prototype.trim, for the blank the model's inputs use
RECURSIVE Trim(_)
Trim(str) ==
  IF str = "" THEN ""
  ELSE IF SubSeq(str, 1, 1) = " " THEN Trim(SubSeq(str, 2, Len(str)))
  ELSE IF SubSeq(str, Len(str), Len(str)) = " " THEN Trim(SubSeq(str, 1, Len(str) - 1))
  ELSE str

\* A JavaScript value as operation.metadata.progressPercent may hold it
Undef == [t |-> "undefined", n |-> 0, s |-> ""]
Num(n) == [t |-> "number", n |-> n, s |-> ""]
Str(s) == [t |-> "string", n |-> 0, s |-> s]
NaN == [t |-> "NaN", n |-> 0, s |-> ""]

DigitVal(c) ==
  CASE c = "0" -> 0 [] c = "1" -> 1 [] c = "2" -> 2 [] c = "3" -> 3 [] c = "4" -> 4
    [] c = "5" -> 5 [] c = "6" -> 6 [] c = "7" -> 7 [] c = "8" -> 8 [] c = "9" -> 9
    [] OTHER -> -1

RECURSIVE DigitsVal(_)
\* the value of a string of decimal digits, -1 when a character is no digit
DigitsVal(str) ==
  IF str = "" THEN 0
  ELSE LET d == DigitVal(SubSeq(str, Len(str), Len(str)))
           r == DigitsVal(SubSeq(str, 1, Len(str) - 1))
       IN IF d < 0 \/ r < 0 THEN -1 ELSE 10 * r + d

\* Number(v): undefined and a non-numeric string convert to NaN
Number(v) ==
  CASE v.t = "number" -> v
    [] v.t = "string" -> IF DigitsVal(Trim(v.s)) < 0 THEN NaN ELSE Num(DigitsVal(Trim(v.s)))
    [] OTHER -> NaN

\* A mutation of OrZero: x ?? 0, which lets NaN through (NaN is written -1)
OrZeroNullish(v) == IF v.t = "number" THEN v.n ELSE -1

\* x || 0 on the result of Number: NaN and 0 are falsy
OrZero(v) == IF v.t = "number" THEN v.n ELSE 0

\* ------------------------------------------------------------ remote API
\* An operation handle as generateVideos / getVideosOperation return it:
\* videos is the length of response.generatedVideos, -1 when it is undefined;
\* error is absent (hasError FALSE) or carries a message, '' when it has none.
Handle(done, hasMeta, pp, videos, hasError, msg) ==
  [done |-> done, hasMeta |-> hasMeta, progressPercent |-> pp,
   videos |-> videos, hasError |-> hasError, errorMessage |-> msg]

NotDone(hasMeta, pp) == Handle(FALSE, hasMeta, pp, -1, FALSE, "")
Done(videos, hasError, msg) == Handle(TRUE, FALSE, Undef, videos, hasError, msg)

NoHandle == Handle(FALSE, FALSE, Undef, -1, FALSE, "")

\* A Blob: what it is, the submission it was made for, and its byte length
Blob(kind, sub, size) == [kind |-> kind, sub |-> sub, size |-> size]
NoBlob == Blob("null", 0, 0)

\* A fetch Response of the video download: res.ok, res.statusText, and the body,
\* which is JSON text (with its error.message, '' when it has none) or not JSON
Response(ok, st, isJson, msg) ==
  [ok |-> ok, statusText |-> st, isJson |-> isJson, errorMessage |-> msg]
NoResponse == Response(FALSE, "", FALSE, "")

\* ------------------------------------------------------- generateContent
\* The locals of one generateContent call: the key the GoogleGenAI client was
\* built with, the request it sent, let operation, the Response of the download,
\* the key put in the download URL, and the network calls made so far.
NoCall ==
  [key |-> "", prompt |-> "", imageBytes |-> "", generateAudio |-> FALSE,
   operation |-> NoHandle, res |-> NoResponse, urlKey |-> "",
   nSubmit |-> 0, nStatus |-> 0, nDownload |-> 0]

Pending == [kind |-> "pending", message |-> "", blob |-> NoBlob]
Resolved(blob) == [kind |-> "resolved", message |-> "", blob |-> blob]
Failed(msg) == [kind |-> "failed", message |-> msg, blob |-> NoBlob]

\* const progress = Number(metadata?.progressPercent) || 0
ProgressOf(h) == OrZero(Number(IF h.hasMeta THEN h.progressPercent ELSE Undef))

\* A mutation of NoVideosMessage: the embedded error is ignored
NoVideosMessageGeneric(h) == "No videos generated"

\* error.message || 'Video generation failed with an unknown error.', else 'No videos generated'
NoVideosMessage(h) ==
  IF h.hasError
  THEN IF h.errorMessage # "" THEN h.errorMessage
       ELSE "Video generation failed with an unknown error."
  ELSE "No videos generated"

\* A mutation of FetchErrorMessage: the body of the response is ignored
FetchErrorMessageStatusOnly(res) == "Failed to fetch video: " \o res.statusText

\* errorBody?.error?.message || `Failed to fetch video: ${res.statusText}`
FetchErrorMessage(res) ==
  IF res.errorMessage # "" THEN res.errorMessage
  ELSE "Failed to fetch video: " \o res.statusText

\* A mutation of OnProgressArg: the call after the loop reports the progress of
\* the handle instead of 100
OnProgressArgOfHandle(h) == ProgressOf(h)

\* The argument of the onProgress call made on handle h: the progress of the
\* handle inside the loop, 100 after it
OnProgressArg(h) == IF h.done THEN 100 ELSE ProgressOf(h)

\* A mutation of HasVideos: only the empty array is checked for
HasVideosUnlessEmpty(h) == h.videos # 0

\* !(videos === undefined || videos.length === 0); videos is -1 for undefined
HasVideos(h) == h.videos > 0

\* A task may start only when no promise continuation is queued: the handler's
\* continuation of `await generateContent(...)` runs as a microtask right after
\* generateContent settles.
NoMicrotask == \A s \in Subs : pc[s] # "settled"

\* A mutation of Settle: the promise of generateContent is left pending
SettleNever(s, r) == UNCHANGED << pc, result >>

\* generateContent settles: its promise resolves with the blob or rejects
Settle(s, r) ==
  /\ pc' = [pc EXCEPT ![s] = "settled"]
  /\ result' = [result EXCEPT ![s] = r]

\* A mutation of Throw: the request is submitted again after a failed call
RetryAfterFailure(s, e) ==
  /\ pc' = [pc EXCEPT ![s] = "submit"]
  /\ call' = [call EXCEPT ![s].nSubmit = @ + 1]
  /\ UNCHANGED << progressCalls, observed, result >>

\* An awaited call rejects with e: no try block surrounds the awaits of
\* generateContent, so e is thrown out of it and its promise rejects with e
Throw(s, e) ==
  /\ Settle(s, Failed(e))
  /\ UNCHANGED << call, progressCalls, observed >>

\* The loop head and what follows it, run with the handle a call returned:
\* while (!operation.done) { onProgress(progress); await delay(5000); ... }
\* onProgress(100); the generatedVideos check; fetch(url)
OnOperation(s, h) ==
  /\ observed' = [observed EXCEPT ![s] = Append(@, h)]
  /\ IF ~h.done
     THEN /\ progressCalls' = [progressCalls EXCEPT ![s] = Append(@, OnProgressArg(h))]
          /\ call' = [call EXCEPT ![s].operation = h]
          /\ pc' = [pc EXCEPT ![s] = "delay"]
          /\ UNCHANGED result
     ELSE /\ progressCalls' = [progressCalls EXCEPT ![s] = Append(@, OnProgressArg(h))]
          /\ IF ~HasVideos(h)
             THEN /\ call' = [call EXCEPT ![s].operation = h]
                  /\ Settle(s, Failed(NoVideosMessage(h)))
             ELSE /\ call' = [call EXCEPT ![s].operation = h, ![s].urlKey = apiKey,
                                          ![s].nDownload = @ + 1]
                  /\ pc' = [pc EXCEPT ![s] = "download"]
                  /\ UNCHANGED result

\* what the generateContent steps leave alone
GenFrame ==
  UNCHANGED << apiKey, storedKey, envKey, db, store, keyGen, txq, base64data, UploadVars, StyleVars, currentVideoBlob,
               selectedMusicStyle, audioChecked, disabled, loading, statusText,
               videoSrc, listeners, currentSortOrder, view, libraryCards, nSub,
               basePrompt, lpc, unhandled, sortIn, sortUsed, addResolved, sortAfter, apiKeyModal, trimButtonHidden, TrimVars >>

\* let operation = await ai.models.generateVideos(config) resolves with h
SubmitReturns(s, h) ==
  /\ NoMicrotask /\ pc[s] = "submit"
  /\ ~h.done => Len(observed[s]) < MaxPolls
  /\ OnOperation(s, h)
  /\ GenFrame

\* ai.models.generateVideos(config) rejects
SubmitFails(s, e) ==
  /\ NoMicrotask /\ pc[s] = "submit"
  /\ Throw(s, e)
  /\ GenFrame

\* A mutation of DelayElapsed: the status is fetched twice after a delay
DelayElapsedTwoFetches(s, ms) ==
  /\ NoMicrotask /\ pc[s] = "delay"
  /\ call' = [call EXCEPT ![s].nStatus = @ + 2]
  /\ pc' = [pc EXCEPT ![s] = "status"]
  /\ UNCHANGED << progressCalls, observed, result >>
  /\ GenFrame

\* await delay(5000) ends; operation = await ai.operations.getVideosOperation({operation}) starts
DelayElapsed(s, ms) ==
  /\ NoMicrotask /\ pc[s] = "delay"
  /\ ms = PollDelayMs
  /\ call' = [call EXCEPT ![s].nStatus = @ + 1]
  /\ pc' = [pc EXCEPT ![s] = "status"]
  /\ UNCHANGED << progressCalls, observed, result >>
  /\ GenFrame

\* getVideosOperation resolves with h
StatusReturns(s, h) ==
  /\ NoMicrotask /\ pc[s] = "status"
  /\ ~h.done => Len(observed[s]) < MaxPolls
  /\ OnOperation(s, h)
  /\ GenFrame

\* getVideosOperation rejects
StatusFails(s, e) ==
  /\ NoMicrotask /\ pc[s] = "status"
  /\ Throw(s, e)
  /\ GenFrame

\* const res = await fetch(url) resolves: if (!res.ok) await res.json() else return res.blob()
DownloadReturns(s, res) ==
  /\ NoMicrotask /\ pc[s] = "download"
  /\ call' = [call EXCEPT ![s].res = res]
  /\ pc' = [pc EXCEPT ![s] = IF res.ok THEN "blob" ELSE "errbody"]
  /\ UNCHANGED << progressCalls, observed, result >>
  /\ GenFrame

\* fetch(url) rejects (a network error)
DownloadFails(s, e) ==
  /\ NoMicrotask /\ pc[s] = "download"
  /\ Throw(s, e)
  /\ GenFrame

\* const errorBody = await res.json() settles: a body that is not JSON rejects with
\* the parser's SyntaxError, a JSON body leads to throw new Error(...)
ErrorBodyRead(s) ==
  /\ NoMicrotask /\ pc[s] = "errbody"
  /\ Settle(s, Failed(IF call[s].res.isJson THEN FetchErrorMessage(call[s].res)
                      ELSE "Unexpected token < in JSON at position 0"))
  /\ UNCHANGED << call, progressCalls, observed >>
  /\ GenFrame

\* return res.blob() resolves with the video bytes
BlobReturns(s, size) ==
  /\ NoMicrotask /\ pc[s] = "blob"
  /\ Settle(s, Resolved(Blob("video", s, size)))
  /\ UNCHANGED << call, progressCalls, observed >>
  /\ GenFrame

\* ------------------------------------------------- generate-click handler
\* allInputs: the controls the handler disables while a generation runs
Controls ==
  {"promptEl", "generateButton", "uploadInput", "audioSwitch", "navGenerate",
   "navTemplates", "navGallery", "navLibrary", "textToVideoTab", "imageToVideoTab",
   "styleButtons", "formatButtons", "musicButtons"}

\* musicPromptMap
MusicPrompt(m) ==
  CASE m = "cinematic" -> "with a dramatic, cinematic musical score"
    [] m = "ambient" -> "with a calm, ambient soundtrack"
    [] m = "electronic" -> "with an upbeat electronic music track"
    [] m = "upbeat" -> "with an uplifting and upbeat music score"
    [] OTHER -> ""

\* const finalStyle = customPromptButton?.classList.contains('active')
\*   ? customStyleValue : selectedStylePrefix
FinalStyle == IF customActive THEN customStyleValue ELSE selectedStylePrefix

\* let basePrompt, from the style, the trimmed prompt and the music style
BasePrompt(style, prompt, music) ==
  LET base == IF style # "" /\ prompt # "" THEN style \o ", " \o prompt
              ELSE IF prompt # "" THEN prompt ELSE style
  IN IF music # "none" /\ MusicPrompt(music) # ""
     THEN IF base # "" THEN base \o ", " \o MusicPrompt(music) ELSE MusicPrompt(music)
     ELSE base

\* String.prototype.toLowerCase
UpperCase == "ABCDEFGHIJKLMNOPQRSTUVWXYZ"
LowerCase == "abcdefghijklmnopqrstuvwxyz"
LowerChar(c) ==
  IF \E i \in 1..Len(UpperCase) : SubSeq(UpperCase, i, i) = c
  THEN LET i == CHOOSE j \in 1..Len(UpperCase) : SubSeq(UpperCase, j, j) = c
       IN SubSeq(LowerCase, i, i)
  ELSE c
RECURSIVE LowerFrom(_, _)
\* the characters of str from position i on, in lower case
LowerFrom(str, i) ==
  IF i > Len(str) THEN ""
  ELSE LowerChar(SubSeq(str, i, i)) \o LowerFrom(str, i + 1)
ToLowerCase(str) == LowerFrom(str, 1)

\* The text of a JSON error body {"error":{"message":m}}
JsonPrefix == "{\"error\":{\"message\":\""
JsonSuffix == "\"}}"
JsonErrorText(m) == JsonPrefix \o m \o JsonSuffix

\* JSON.parse(rawMessage), as far as the catch block reads it: whether the text
\* parses, and errorJson.error.message ('' when absent)
JSONParse(text) ==
  LET n == Len(text)
      p == Len(JsonPrefix)
      q == Len(JsonSuffix)
  IN IF n >= p + q /\ SubSeq(text, 1, p) = JsonPrefix /\ SubSeq(text, n - q + 1, n) = JsonSuffix
     THEN [ok |-> TRUE, message |-> SubSeq(text, p + 1, n - q)]
     ELSE IF text = "{}" THEN [ok |-> TRUE, message |-> ""]
     ELSE [ok |-> FALSE, message |-> ""]

\* The text of the body of a download Response: the JSON error text, or the
\* page a server or proxy answers with, which begins with '<'
BodyText(res) ==
  IF res.isJson THEN JsonErrorText(res.errorMessage)
  ELSE "<html>" \o res.statusText \o "</html>"

\* The first test of the catch block, on which it also calls openApiKeyModal():
\* lowerCaseMessage.includes('api key') &&
\* (lowerCaseMessage.includes('not valid') || lowerCaseMessage.includes('invalid'))
IsApiKeyError(rawMessage) ==
  /\ Includes(ToLowerCase(rawMessage), "api key")
  /\ \/ Includes(ToLowerCase(rawMessage), "not valid")
     \/ Includes(ToLowerCase(rawMessage), "invalid")

\* the second test: lowerCaseMessage.includes('quota')
IsQuotaError(rawMessage) == Includes(ToLowerCase(rawMessage), "quota")

\* The catch block's friendlyMessage for an error with message rawMessage
FriendlyMessage(rawMessage) ==
  IF IsApiKeyError(rawMessage)
  THEN "Your API Key is not valid. Please check it in the settings."
  ELSE IF IsQuotaError(rawMessage)
  THEN "You have exceeded your API quota. Please check your plan and billing details."
  ELSE IF JSONParse(rawMessage).ok
  THEN IF JSONParse(rawMessage).message # "" THEN JSONParse(rawMessage).message
       ELSE "An unknown error occurred. Please try again."
  ELSE rawMessage

\* A mutation of LoadedKey: the environment key is preferred to the stored one
LoadedKeyEnvFirst(stored, env) ==
  IF env # "" /\ Trim(env) # "" THEN env
  ELSE IF stored # "" /\ Trim(stored) # "" THEN stored
  ELSE ""

\* loadApiKey(): the key it leaves in apiKey ("" when it assigns none), given
\* what local storage and process.env hold
LoadedKey(stored, env) ==
  IF stored # "" /\ Trim(stored) # "" THEN stored
  ELSE IF env # "" /\ Trim(env) # "" THEN env
  ELSE ""

\* loadApiKey() at page load: when it has found no key, openApiKeyModal(true)
LoadApiKeyModal(key) == IF key = "" THEN "initial" ELSE "hidden"

\* generateContent up to its first await: the key check, the client, the request
GenerateContentStart(s, prompt, imageBytes, generateAudio) ==
  IF apiKey = ""
  THEN /\ Settle(s, Failed("API Key is not set. Please configure it in the settings."))
       /\ UNCHANGED call
  ELSE /\ call' = [call EXCEPT ![s] = [NoCall EXCEPT !.key = apiKey, !.prompt = prompt,
                                         !.imageBytes = imageBytes,
                                         !.generateAudio = generateAudio, !.nSubmit = 1]]
       /\ pc' = [pc EXCEPT ![s] = "submit"]
       /\ UNCHANGED result

\* A mutation of ReEnabled: the finally block re-enables nothing
ReEnabledNothing == disabled

\* The finally block: re-enable allInputs, but not the audio switch while a music
\* style is selected
ReEnabled ==
  [c \in Controls |->
     IF c = "audioSwitch" /\ selectedMusicStyle # "none" THEN disabled[c] ELSE FALSE]

\* A mutation of DisabledOnSubmit: the generate button is left out of allInputs
DisabledOnSubmitInputsOnly == [c \in Controls |-> c # "generateButton"]

\* allInputs.forEach(el => el.disabled = true): generateButton is one of allInputs
DisabledOnSubmit == [c \in Controls |-> TRUE]

\* A mutation of Fulfilled: the rest of the try block runs after a rejection too
FulfilledOrNot(r) == TRUE

\* `await generateContent(...)` returns normally iff the promise was fulfilled;
\* a rejection is thrown into the catch block
Fulfilled(r) == r.kind = "resolved"

\* A mutation of NothingToGenerate: the validation is skipped
NothingToGenerateIgnored(prompt) == FALSE

\* The validation of the click handler, on the trimmed prompt: !prompt && !base64data
NothingToGenerate(prompt) == prompt = "" /\ base64data = ""

\* A click on the generate button with `text` in the prompt box
ClickGenerate(text) ==
  /\ NoMicrotask
  /\ view = "generate"
  /\ ~disabled["generateButton"]
  /\ IF apiKey = ""
     THEN /\ statusText' = "Please configure your API Key first."
          /\ apiKeyModal' = "initial"
          /\ UNCHANGED << trimButtonHidden, trimmerVisible, nSub, loading, disabled, basePrompt, pc, call, result,
                          progressCalls, observed >>
     ELSE IF NothingToGenerate(Trim(text))
     THEN /\ statusText' = "Please enter a video description or upload an image."
          /\ UNCHANGED << apiKeyModal, trimButtonHidden, trimmerVisible, nSub, loading, disabled, basePrompt, pc, call, result,
                          progressCalls, observed >>
     ELSE /\ nSub < MaxSub
          /\ nSub' = nSub + 1
          /\ loading' = TRUE
          /\ disabled' = DisabledOnSubmit
          /\ statusText' = ""
          /\ basePrompt' = [basePrompt EXCEPT ![nSub + 1] =
                              BasePrompt(FinalStyle, Trim(text), selectedMusicStyle)]
          /\ progressCalls' = [progressCalls EXCEPT ![nSub + 1] = << >>]
          /\ observed' = [observed EXCEPT ![nSub + 1] = << >>]
          /\ trimButtonHidden' = TRUE
          /\ trimmerVisible' = FALSE
          /\ UNCHANGED apiKeyModal
          /\ GenerateContentStart(nSub + 1,
                                  BasePrompt(FinalStyle, Trim(text), selectedMusicStyle),
                                  base64data,
                                  selectedMusicStyle # "none" \/ audioChecked)
  /\ UNCHANGED << apiKey, storedKey, envKey, db, store, keyGen, txq, base64data, UploadVars, StyleVars, currentVideoBlob,
                  selectedMusicStyle, audioChecked, videoSrc, listeners,
                  currentSortOrder, view, libraryCards, lpc, unhandled, sortIn,
                  sortUsed, addResolved, sortAfter, originalVideoBlob, ffmpeg, tpc,
                  startLeft, endLeft, previewAttached, trimmerInitialized >>

\* The continuation of `await generateContent(...)`: the rest of the try block
\* (show the video, register the once-'loadeddata' listener) or the catch block,
\* and then the finally block.  The locals of the finished call are dropped.
HandlerResume(s) ==
  /\ pc[s] = "settled"
  /\ IF Fulfilled(result[s])
     THEN /\ currentVideoBlob' = result[s].blob
          /\ videoSrc' = [blob |-> result[s].blob, loaded |-> FALSE]
          /\ listeners' = listeners \cup {s}
          /\ lpc' = [lpc EXCEPT ![s] = "armed"]
          /\ UNCHANGED << statusText, apiKeyModal >>
     ELSE /\ statusText' = "Error: " \o FriendlyMessage(result[s].message)
          /\ apiKeyModal' = IF IsApiKeyError(result[s].message) THEN "open" ELSE apiKeyModal
          /\ UNCHANGED << currentVideoBlob, videoSrc, listeners, lpc >>
  /\ loading' = FALSE
  /\ disabled' = ReEnabled
  /\ pc' = [pc EXCEPT ![s] = "finished"]
  /\ call' = [call EXCEPT ![s] = NoCall]
  /\ progressCalls' = [progressCalls EXCEPT ![s] = << >>]
  /\ observed' = [observed EXCEPT ![s] = << >>]
  /\ UNCHANGED << apiKey, storedKey, envKey, db, store, keyGen, txq, base64data, UploadVars, StyleVars, selectedMusicStyle,
                  audioChecked, currentSortOrder, view, libraryCards, nSub,
                  basePrompt, result, unhandled, sortIn, sortUsed, addResolved, sortAfter,
                  trimButtonHidden, TrimVars >>

\* ---------------------------------------------------------- library store
\* A VideoRecord; id 0 stands for a record that has no id yet
Record(id, prompt, videoBlob, thumbnailBlob, timestamp) ==
  [id |-> id, prompt |-> prompt, videoBlob |-> videoBlob,
   thumbnailBlob |-> thumbnailBlob, timestamp |-> timestamp]

\* What store.add keeps of a record: its structured clone, with the generated key
\* stored at keyPath 'id'
StoredRecord(rec, key) ==
  Record(key, rec.prompt, rec.videoBlob, rec.thumbnailBlob, rec.timestamp)

\* A promise rejection no handler was attached for: the async function whose
\* promise it is, the submission (0 when none), and the reason
Rejection(from, sub, reason) == [from |-> from, sub |-> sub, reason |-> reason]

\* A transaction on object store 'videos'.  Transactions with overlapping scope
\* run in the order they were created, so only the head of txq makes progress.
\* `after` is kept for a getAll only: the adds that had resolved when it was called.
AddTxn(owner, rec) ==
  [kind |-> "add", owner |-> owner, rec |-> rec, state |-> "requested", after |-> {}]
GetAllTxn(after) ==
  [kind |-> "getAll", owner |-> 0, rec |-> Record(0, "", NoBlob, NoBlob, 0),
   state |-> "requested", after |-> after]

\* A mutation of AddVideoToLibrary: the `if (!db)` test is missing
AddVideoToLibraryUnchecked(s, rec) ==
  /\ txq' = Append(txq, AddTxn(s, rec))
  /\ lpc' = [lpc EXCEPT ![s] = "adding"]
  /\ UNCHANGED unhandled

\* addVideoToLibrary(record) up to the request: reject when db is unset, else
\* db.transaction(['videos'], 'readwrite') and store.add(record).  The caller is
\* the 'loadeddata' listener of submission s, whose rejection nobody handles.
AddVideoToLibrary(s, rec) ==
  IF db # "open"
  THEN /\ unhandled' = unhandled \cup {Rejection("loadeddata", s, "DB not initialized")}
       /\ lpc' = [lpc EXCEPT ![s] = "rejected"]
       /\ UNCHANGED txq
  ELSE /\ txq' = Append(txq, AddTxn(s, rec))
       /\ lpc' = [lpc EXCEPT ![s] = "adding"]
       /\ UNCHANGED unhandled

StoreFrame ==
  UNCHANGED << apiKey, storedKey, envKey, base64data, UploadVars, StyleVars, selectedMusicStyle, audioChecked, disabled,
               loading, nSub, basePrompt, pc, call, progressCalls, observed, result >>

\* The add request succeeds: request.onsuccess = () => resolve(), and the
\* listener that awaited addVideoToLibrary ends.  The transaction is still open.
AddSucceeds ==
  /\ NoMicrotask
  /\ txq # << >> /\ txq[1].kind = "add" /\ txq[1].state = "requested"
  /\ txq' = [txq EXCEPT ![1].state = "succeeded",
                        ![1].rec = StoredRecord(txq[1].rec, keyGen + 1)]
  /\ lpc' = [lpc EXCEPT ![txq[1].owner] = "done"]
  /\ addResolved' = addResolved \cup {txq[1].rec}
  /\ UNCHANGED << db, store, keyGen, currentVideoBlob, statusText, videoSrc, listeners,
                  currentSortOrder, view, libraryCards, unhandled, sortIn, sortUsed,
                  sortAfter, apiKeyModal, trimButtonHidden, TrimVars >>
  /\ StoreFrame

\* The add request fails: request.onerror rejects with 'Error adding video: ...',
\* and the transaction aborts
AddFails(e) ==
  /\ NoMicrotask
  /\ txq # << >> /\ txq[1].kind = "add" /\ txq[1].state = "requested"
  /\ txq' = Tail(txq)
  /\ lpc' = [lpc EXCEPT ![txq[1].owner] = "rejected"]
  /\ unhandled' = unhandled \cup
                    {Rejection("loadeddata", txq[1].owner, "Error adding video: " \o e)}
  /\ UNCHANGED << db, store, keyGen, currentVideoBlob, statusText, videoSrc, listeners,
                  currentSortOrder, view, libraryCards, sortIn, sortUsed, addResolved, sortAfter, apiKeyModal, trimButtonHidden, TrimVars >>
  /\ StoreFrame

\* A mutation of Committed: store.put under the key of the last record
CommittedByPut(records, rec) ==
  IF records = << >> THEN << rec >> ELSE [records EXCEPT ![Len(records)] = rec]

\* The records of the object store once store.add(rec) is committed: add never
\* replaces a record, and rec carries the key the generator issued
Committed(records, rec) == Append(records, rec)

\* The readwrite transaction commits: the record is in the store
TxnCommits ==
  /\ NoMicrotask
  /\ txq # << >> /\ txq[1].kind = "add" /\ txq[1].state = "succeeded"
  /\ store' = Committed(store, txq[1].rec)
  /\ keyGen' = txq[1].rec.id
  /\ txq' = Tail(txq)
  /\ UNCHANGED << db, currentVideoBlob, statusText, videoSrc, listeners, lpc,
                  currentSortOrder, view, libraryCards, unhandled, sortIn, sortUsed, addResolved, sortAfter, apiKeyModal, trimButtonHidden, TrimVars >>
  /\ StoreFrame

\* The readwrite transaction aborts after its request succeeded (the commit
\* fails, e.g. on quota): the record and the generated key are rolled back
TxnAborts ==
  /\ NoMicrotask
  /\ txq # << >> /\ txq[1].kind = "add" /\ txq[1].state = "succeeded"
  /\ txq' = Tail(txq)
  /\ UNCHANGED << db, store, keyGen, currentVideoBlob, statusText, videoSrc, listeners,
                  lpc, currentSortOrder, view, libraryCards, unhandled, sortIn, sortUsed, addResolved, sortAfter, apiKeyModal, trimButtonHidden, TrimVars >>
  /\ StoreFrame

\* ------------------------------------------------------------- the library
\* The rank of a character in the collation order of the lowercase letters
CharRank(c) ==
  IF \E i \in 1..Len(LowerCase) : SubSeq(LowerCase, i, i) = c
  THEN CHOOSE i \in 1..Len(LowerCase) : SubSeq(LowerCase, i, i) = c
  ELSE 0

RECURSIVE LocaleCompare(_, _)
\* a.localeCompare(b) for strings of lowercase letters: negative, 0 or positive
LocaleCompare(a, b) ==
  IF a = "" /\ b = "" THEN 0
  ELSE IF a = "" THEN -1
  ELSE IF b = "" THEN 1
  ELSE IF CharRank(SubSeq(a, 1, 1)) # CharRank(SubSeq(b, 1, 1))
  THEN CharRank(SubSeq(a, 1, 1)) - CharRank(SubSeq(b, 1, 1))
  ELSE LocaleCompare(SubSeq(a, 2, Len(a)), SubSeq(b, 2, Len(b)))

\* A mutation of NewestFirst: the operands of the subtraction are swapped
NewestFirstSwapped(a, b) == a.timestamp - b.timestamp <= 0

\* A mutation of OldestFirst: the operands of the subtraction are swapped
OldestFirstSwapped(a, b) == b.timestamp - a.timestamp <= 0

\* the three compare functions of loadVideosFromLibrary
NewestFirst(a, b) == b.timestamp - a.timestamp <= 0
OldestFirst(a, b) == a.timestamp - b.timestamp <= 0
ByName(a, b) == LocaleCompare(a.prompt, b.prompt) <= 0

\* compareFn(a, b) <= 0 for the compare function chosen by currentSortOrder
Before(order, a, b) ==
  CASE order = "newest" -> NewestFirst(a, b)
    [] order = "oldest" -> OldestFirst(a, b)
    [] order = "name" -> ByName(a, b)
    [] OTHER -> TRUE

\* Array.prototype.sort(compareFn): a stable sort, here by insertion
RECURSIVE Insert(_, _, _)
Insert(sorted, x, order) ==
  IF sorted = << >> THEN << x >>
  ELSE IF Before(order, sorted[Len(sorted)], x) THEN Append(sorted, x)
  ELSE Append(Insert(SubSeq(sorted, 1, Len(sorted) - 1), x, order), sorted[Len(sorted)])

RECURSIVE SortBy(_, _)
SortBy(arr, order) ==
  IF arr = << >> THEN << >>
  ELSE Insert(SortBy(SubSeq(arr, 1, Len(arr) - 1), order), arr[Len(arr)], order)

\* videos.sort(...) under currentSortOrder
SortVideos(videos, order) ==
  IF order \in {"newest", "oldest", "name"} THEN SortBy(videos, order) ELSE videos

\* loadVideosFromLibrary() up to `await getAllVideos()`: getAllVideos rejects
\* when db is unset, and no caller handles the rejection
LoadVideosFromLibrary(dbNow) ==
  IF dbNow # "open"
  THEN /\ unhandled' = unhandled \cup
                         {Rejection("loadVideosFromLibrary", 0, "DB not initialized")}
       /\ UNCHANGED txq
  ELSE /\ txq' = Append(txq, GetAllTxn(addResolved))
       /\ UNCHANGED unhandled

\* at most one library load waits for its getAll at a time
NoLoadPending == \A i \in 1..Len(txq) : txq[i].kind # "getAll"

LibFrame ==
  UNCHANGED << apiKey, storedKey, envKey, base64data, UploadVars, StyleVars, selectedMusicStyle, audioChecked, disabled,
               loading, nSub, basePrompt, pc, call, progressCalls, observed, result,
               lpc, store, keyGen >>

\* indexedDB.open succeeds: request.onsuccess sets db and loads the library when
\* it is the view shown
DBOpenSucceeds ==
  /\ NoMicrotask
  /\ db = "opening"
  /\ db' = "open"
  /\ IF view = "library" THEN LoadVideosFromLibrary("open") ELSE UNCHANGED << txq, unhandled >>
  /\ UNCHANGED << currentVideoBlob, statusText, videoSrc, listeners, currentSortOrder,
                  view, libraryCards, sortIn, sortUsed, addResolved, sortAfter, apiKeyModal, trimButtonHidden, TrimVars >>
  /\ LibFrame

\* indexedDB.open fails: request.onerror only logs, db stays unset
DBOpenFails ==
  /\ NoMicrotask
  /\ db = "opening"
  /\ db' = "failed"
  /\ UNCHANGED << txq, unhandled, currentVideoBlob, statusText, videoSrc, listeners,
                  currentSortOrder, view, libraryCards, sortIn, sortUsed, addResolved, sortAfter, apiKeyModal, trimButtonHidden, TrimVars >>
  /\ LibFrame

\* A click on a nav item: showView(v), which loads the library for 'library'
ShowView(v) ==
  /\ NoMicrotask
  /\ ~disabled[CASE v = "library" -> "navLibrary"
                  [] v = "templates" -> "navTemplates"
                  [] OTHER -> "navGenerate"]
  /\ v = "library" => NoLoadPending
  /\ view' = v
  /\ IF v = "library" THEN LoadVideosFromLibrary(db) ELSE UNCHANGED << txq, unhandled >>
  /\ UNCHANGED << db, currentVideoBlob, statusText, videoSrc, listeners,
                  currentSortOrder, libraryCards, sortIn, sortUsed, addResolved, sortAfter, apiKeyModal, trimButtonHidden, TrimVars >>
  /\ LibFrame

\* sortSelect 'change': set currentSortOrder and reload the library
SortChange(order) ==
  /\ NoMicrotask
  /\ view = "library"
  /\ NoLoadPending
  /\ currentSortOrder' = order
  /\ LoadVideosFromLibrary(db)
  /\ UNCHANGED << db, currentVideoBlob, statusText, videoSrc, listeners, view,
                  libraryCards, sortIn, sortUsed, addResolved, sortAfter, apiKeyModal, trimButtonHidden, TrimVars >>
  /\ LibFrame

\* getAll succeeds: getAllVideos resolves with the committed records in key
\* order, and loadVideosFromLibrary sorts them and renders one card each
GetAllSucceeds ==
  /\ NoMicrotask
  /\ txq # << >> /\ txq[1].kind = "getAll"
  /\ txq' = Tail(txq)
  /\ sortIn' = store
  /\ sortAfter' = txq[1].after
  /\ sortUsed' = currentSortOrder
  /\ libraryCards' = SortVideos(store, currentSortOrder)
  /\ UNCHANGED << db, currentVideoBlob, statusText, videoSrc, listeners,
                  currentSortOrder, view, unhandled, addResolved, apiKeyModal, trimButtonHidden, TrimVars >>
  /\ LibFrame

\* A click on the play button of card i: show its video in the main player
PlayFromLibrary(i) ==
  /\ NoMicrotask
  /\ view = "library"
  /\ i \in 1..Len(libraryCards)
  /\ currentVideoBlob' = libraryCards[i].videoBlob
  /\ view' = "generate"
  /\ videoSrc' = [blob |-> libraryCards[i].videoBlob, loaded |-> FALSE]
  /\ statusText' = "Now playing: " \o libraryCards[i].prompt
  /\ trimButtonHidden' = FALSE
  /\ UNCHANGED << db, txq, unhandled, listeners, currentSortOrder, libraryCards,
                  sortIn, sortUsed, addResolved, sortAfter, apiKeyModal, TrimVars >>
  /\ LibFrame

\* ------------------------------------------------ the 'loadeddata' listener
\* The player has loaded the data of video.src: every registered once-listener
\* runs up to `await createThumbnail(video)`
VideoLoaded ==
  /\ NoMicrotask
  /\ videoSrc.blob # NoBlob /\ ~videoSrc.loaded
  /\ videoSrc' = [videoSrc EXCEPT !.loaded = TRUE]
  /\ listeners' = {}
  /\ statusText' = IF listeners # {} THEN "Video generated successfully." ELSE statusText
  /\ trimButtonHidden' = IF listeners # {} THEN FALSE ELSE trimButtonHidden
  /\ lpc' = [s \in Subs |->
               IF s \in listeners
               THEN IF currentVideoBlob # NoBlob THEN "thumb" ELSE "done"
               ELSE lpc[s]]
  /\ UNCHANGED << apiKey, storedKey, envKey, db, store, keyGen, txq, base64data, UploadVars, StyleVars, currentVideoBlob,
                  selectedMusicStyle, audioChecked, disabled, loading,
                  currentSortOrder, view, libraryCards, nSub, basePrompt, pc, call,
                  progressCalls, observed, result, unhandled, sortIn, sortUsed,
                  addResolved, sortAfter, apiKeyModal, TrimVars >>

ListenerFrame ==
  UNCHANGED << apiKey, storedKey, envKey, db, store, keyGen, base64data, UploadVars, StyleVars, currentVideoBlob,
               selectedMusicStyle, audioChecked, disabled, loading, statusText,
               videoSrc, listeners, currentSortOrder, view, libraryCards, nSub,
               basePrompt, pc, call, progressCalls, observed, result, sortIn,
               sortUsed, addResolved, sortAfter, apiKeyModal, trimButtonHidden, TrimVars >>

\* createThumbnail resolves with a thumbnail of `size` bytes while Date.now()
\* reads t: the listener builds the record and calls addVideoToLibrary
ThumbnailReturns(s, size, t) ==
  /\ NoMicrotask
  /\ lpc[s] = "thumb"
  /\ AddVideoToLibrary(s, Record(0, basePrompt[s], currentVideoBlob,
                                 Blob("thumbnail", s, size), t))
  /\ ListenerFrame

\* createThumbnail rejects ('Could not get canvas context', 'Canvas to Blob
\* conversion failed'): the listener's promise rejects
ThumbnailFails(s, e) ==
  /\ NoMicrotask
  /\ lpc[s] = "thumb"
  /\ lpc' = [lpc EXCEPT ![s] = "rejected"]
  /\ unhandled' = unhandled \cup {Rejection("loadeddata", s, e)}
  /\ UNCHANGED txq
  /\ ListenerFrame

\* A mutation of AudioLock: a music style does not lock the switch
AudioLockNever(music) == FALSE

\* The audio switch is forced on and locked by a music style other than 'none'
\* (the same lines in the music-button and the template-card handler)
AudioLock(music) == music # "none"

\* A click on a music button: the audio switch is forced on and locked while a
\* music style is selected
MusicClick(m) ==
  /\ NoMicrotask
  /\ view = "generate"
  /\ ~disabled["musicButtons"]
  /\ selectedMusicStyle' = m
  /\ IF AudioLock(m)
     THEN /\ audioChecked' = TRUE
          /\ disabled' = [disabled EXCEPT !["audioSwitch"] = TRUE]
     ELSE /\ disabled' = [disabled EXCEPT !["audioSwitch"] = FALSE]
          /\ UNCHANGED audioChecked
  /\ UNCHANGED << apiKey, storedKey, envKey, db, store, keyGen, txq, base64data, UploadVars, StyleVars, currentVideoBlob,
                  loading, statusText, videoSrc, listeners, currentSortOrder, view,
                  libraryCards, nSub, basePrompt, pc, call, progressCalls, observed,
                  result, lpc, unhandled, sortIn, sortUsed, addResolved, sortAfter, apiKeyModal, trimButtonHidden, TrimVars >>

\* A click on a template card with data-style `style` and data-music `music`;
\* hasButton: a style button with that data-style exists
TemplateClick(style, hasButton, music) ==
  /\ NoMicrotask
  /\ view = "templates"
  /\ IF hasButton
     THEN selectedStylePrefix' = style /\ customStyleValue' = "" /\ customActive' = FALSE
     ELSE selectedStylePrefix' = "" /\ customStyleValue' = style /\ customActive' = TRUE
  /\ selectedMusicStyle' = music
  /\ IF AudioLock(music)
     THEN /\ audioChecked' = TRUE
          /\ disabled' = [disabled EXCEPT !["audioSwitch"] = TRUE]
     ELSE /\ disabled' = [disabled EXCEPT !["audioSwitch"] = FALSE]
          /\ UNCHANGED audioChecked
  /\ view' = "generate"
  /\ UNCHANGED << apiKey, storedKey, envKey, db, store, keyGen, txq, base64data,
                  UploadVars, currentVideoBlob, loading, statusText, videoSrc,
                  listeners, currentSortOrder, libraryCards, nSub, basePrompt, pc,
                  call, progressCalls, observed, result, lpc, unhandled, sortIn,
                  sortUsed, addResolved, sortAfter, apiKeyModal, trimButtonHidden,
                  TrimVars >>

\* The user flips the audio switch, which has no listener of its own
AudioToggle ==
  /\ NoMicrotask
  /\ view = "generate"
  /\ ~disabled["audioSwitch"]
  /\ audioChecked' = ~audioChecked
  /\ UNCHANGED << apiKey, storedKey, envKey, db, store, keyGen, txq, base64data,
                  UploadVars, StyleVars, currentVideoBlob, selectedMusicStyle,
                  disabled, loading, statusText, videoSrc, listeners,
                  currentSortOrder, view, libraryCards, nSub, basePrompt, pc, call,
                  progressCalls, observed, result, lpc, unhandled, sortIn, sortUsed,
                  addResolved, sortAfter, apiKeyModal, trimButtonHidden, TrimVars >>

\* ------------------------------------------------------- the upload form
\* A File: its media type and its bytes in base64
File(type, b64) == [type |-> type, b64 |-> b64]

\* reader.result of readAsDataURL(file)
DataURL(file) == "data:" \o file.type \o ";base64," \o file.b64

\* the positions of the commas of str
Commas(str) == {i \in 1..Len(str) : SubSeq(str, i, i) = ","}

\* url.split(',')[1]: what stands between the first comma and the next one
\* (or the end); undefined, written "", when url has no comma
SplitSecond(url) ==
  IF Commas(url) = {} THEN ""
  ELSE LET first == CHOOSE i \in Commas(url) : \A j \in Commas(url) : i <= j
           rest == {j \in Commas(url) : j > first}
           stop == IF rest = {} THEN Len(url) + 1
                   ELSE CHOOSE i \in rest : \A j \in rest : i <= j
       IN SubSeq(url, first + 1, stop - 1)

UploadFrame ==
  UNCHANGED << apiKey, storedKey, envKey, db, store, keyGen, txq, StyleVars,
               currentVideoBlob, selectedMusicStyle, audioChecked, disabled, loading,
               statusText, videoSrc, listeners, currentSortOrder, view, libraryCards,
               nSub, basePrompt, pc, call, progressCalls, observed, result, lpc,
               sortIn, sortUsed, addResolved, sortAfter, apiKeyModal,
               trimButtonHidden, TrimVars >>

\* A click on the image-to-video tab: the upload box is shown
ImageTabClick ==
  /\ NoMicrotask
  /\ view = "generate" /\ ~disabled["imageToVideoTab"]
  /\ tab' = "image"
  /\ UNCHANGED << base64data, reading, unhandled >>
  /\ UploadFrame

\* A click on the text-to-video tab: the upload box is hidden and the image dropped
TextTabClick ==
  /\ NoMicrotask
  /\ view = "generate" /\ ~disabled["textToVideoTab"]
  /\ tab' = "text"
  /\ base64data' = ""
  /\ UNCHANGED << reading, unhandled >>
  /\ UploadFrame

\* uploadInput 'change' with `file` chosen, up to `await blobToBase64(file)`
UploadChange(file) ==
  /\ NoMicrotask
  /\ view = "generate" /\ tab = "image" /\ ~disabled["uploadInput"]
  /\ reading' = reading \cup {file}
  /\ UNCHANGED << base64data, tab, unhandled >>
  /\ UploadFrame

\* The FileReader of `file` ends: blobToBase64 resolves and the listener assigns
\* base64data and shows the preview
ReadEnds(file) ==
  /\ NoMicrotask
  /\ file \in reading
  /\ reading' = reading \ {file}
  /\ base64data' = SplitSecond(DataURL(file))
  /\ UNCHANGED << tab, unhandled >>
  /\ UploadFrame

\* The FileReader of `file` fails: blobToBase64 rejects, and so does the listener
ReadFails(file) ==
  /\ NoMicrotask
  /\ file \in reading
  /\ reading' = reading \ {file}
  /\ unhandled' = unhandled \cup {Rejection("uploadInput change", 0, "NotReadableError")}
  /\ UNCHANGED << base64data, tab >>
  /\ UploadFrame

\* ------------------------------------------------------------ the trimmer
TrimFrame ==
  UNCHANGED << apiKey, storedKey, envKey, db, store, keyGen, txq, base64data,
               UploadVars, StyleVars, selectedMusicStyle,
               audioChecked, disabled, loading, listeners, currentSortOrder, view,
               libraryCards, nSub, basePrompt, pc, call, progressCalls, observed,
               result, lpc, unhandled, sortIn, sortUsed, addResolved, sortAfter,
               apiKeyModal, trimButtonHidden >>

\* video.duration in hundredths of a second: NaN until the player has the data
\* of video.src; a clip lasts one second per byte of the model's blobs
VideoDuration ==
  IF videoSrc.blob # NoBlob /\ videoSrc.loaded THEN Num(100 * videoSrc.blob.size) ELSE NaN

\* parseFloat(handle.style.left) / 100 * duration
TimeAt(left, duration) ==
  IF left < 0 \/ duration.t # "number" THEN NaN ELSE Num((left * duration.n) \div 100)

\* a <= b on JavaScript numbers: false when either is NaN
LessEq(a, b) == a.t = "number" /\ b.t = "number" /\ a.n <= b.n

\* handle.style.left = `${time / duration * 100}%` on a handle at `left`: the
\* values 'NaN%' and 'Infinity%' are no CSS lengths and are ignored
StyleLeft(left, time, duration) ==
  IF time.t # "number" \/ duration.t # "number" \/ duration.n = 0 THEN left
  ELSE (time.n * 100) \div duration.n

\* updateTimelineUI(startTime, endTime, duration)
UpdateTimelineUI(startTime, endTime, duration) ==
  /\ startLeft' = StyleLeft(startLeft, startTime, duration)
  /\ endLeft' = StyleLeft(endLeft, endTime, duration)

\* The trim-button handler after `await loadFFmpeg()`, ffmpegNow being what the
\* variable holds then: if (!ffmpeg) return; the timeline is set to the whole
\* clip, the preview listeners are added, initializeTrimmer()
LoadFFmpegReturned(ffmpegNow) ==
  IF ffmpegNow \in {"null", "importing"}
  THEN UNCHANGED << startLeft, endLeft, previewAttached, trimmerInitialized >>
  ELSE /\ UpdateTimelineUI(Num(0), VideoDuration, VideoDuration)
       /\ previewAttached' = TRUE
       /\ trimmerInitialized' = TRUE

\* A click on the trim button.  loadFFmpeg returns at once when ffmpeg is set,
\* and the handler goes on in the same task; a click while an import is pending
\* starts a second import, which the model does not tell from the first.
TrimClick ==
  /\ NoMicrotask
  /\ view = "generate" /\ ~trimButtonHidden
  /\ currentVideoBlob # NoBlob
  /\ trimmerVisible' = TRUE
  /\ originalVideoBlob' = currentVideoBlob
  /\ IF ffmpeg \in {"null", "importing"}
     THEN /\ ffmpeg' = "importing" /\ statusText' = "Loading trimmer..."
          /\ UNCHANGED << startLeft, endLeft, previewAttached, trimmerInitialized >>
     ELSE /\ UNCHANGED << ffmpeg, statusText >>
          /\ LoadFFmpegReturned(ffmpeg)
  /\ UNCHANGED << currentVideoBlob, videoSrc, tpc >>
  /\ TrimFrame

\* loadFFmpeg: the dynamic imports resolve and ffmpeg = new FFmpeg() is assigned
FFmpegImported ==
  /\ NoMicrotask
  /\ ffmpeg = "importing"
  /\ ffmpeg' = "created"
  /\ UNCHANGED << currentVideoBlob, videoSrc, statusText, originalVideoBlob,
                  trimmerVisible, tpc, startLeft, endLeft, previewAttached,
                  trimmerInitialized >>
  /\ TrimFrame

\* loadFFmpeg: a dynamic import rejects; the catch block reports it, ffmpeg
\* stays null and the trim-button handler returns
FFmpegImportFails ==
  /\ NoMicrotask
  /\ ffmpeg = "importing"
  /\ ffmpeg' = "null"
  /\ statusText' = "Failed to load trimmer components."
  /\ LoadFFmpegReturned("null")
  /\ UNCHANGED << currentVideoBlob, videoSrc, originalVideoBlob, trimmerVisible, tpc >>
  /\ TrimFrame

\* loadFFmpeg: ffmpeg.load(...) resolves, and the trim-button handler goes on
FFmpegLoaded ==
  /\ NoMicrotask
  /\ ffmpeg = "created"
  /\ ffmpeg' = "loaded"
  /\ statusText' = ""
  /\ LoadFFmpegReturned("loaded")
  /\ UNCHANGED << currentVideoBlob, videoSrc, originalVideoBlob, trimmerVisible, tpc >>
  /\ TrimFrame

\* loadFFmpeg: toBlobURL or ffmpeg.load rejects; the catch block reports it,
\* ffmpeg keeps the instance that never loaded, and the trim-button handler goes on
FFmpegLoadFails ==
  /\ NoMicrotask
  /\ ffmpeg = "created"
  /\ ffmpeg' = "failed"
  /\ statusText' = "Failed to load trimmer components."
  /\ LoadFFmpegReturned("failed")
  /\ UNCHANGED << currentVideoBlob, videoSrc, originalVideoBlob, trimmerVisible, tpc >>
  /\ TrimFrame

\* A pointer move during a drag of the start handle (isStartHandle) or of the
\* end handle, the pointer being at rawPercent percent of the timeline's width
PointerMove(isStartHandle, rawPercent) ==
  /\ NoMicrotask
  /\ view = "generate" /\ trimmerVisible /\ trimmerInitialized
  /\ LET percent == IF rawPercent < 0 THEN 0 ELSE IF rawPercent > 100 THEN 100 ELSE rawPercent
         duration == VideoDuration
         newTime == TimeAt(percent, duration)
         startTime == TimeAt(startLeft, duration)
         endTime == TimeAt(endLeft, duration)
         clamped == IF isStartHandle
                    THEN (IF LessEq(endTime, newTime) THEN endTime ELSE newTime)
                    ELSE (IF LessEq(newTime, startTime) THEN startTime ELSE newTime)
     IN \* the assignment video.currentTime = NaN throws a TypeError, which ends
        \* the listener before updateTimelineUI
        IF clamped.t # "number" THEN UNCHANGED << startLeft, endLeft >>
        ELSE IF isStartHandle THEN UpdateTimelineUI(clamped, endTime, duration)
        ELSE UpdateTimelineUI(startTime, clamped, duration)
  /\ UNCHANGED << currentVideoBlob, videoSrc, statusText, originalVideoBlob, ffmpeg,
                  trimmerVisible, tpc, previewAttached, trimmerInitialized >>
  /\ TrimFrame

\* A click on the trimmer's Cancel button
TrimCancel ==
  /\ NoMicrotask
  /\ view = "generate" /\ trimmerVisible
  /\ previewAttached' = FALSE
  /\ IF originalVideoBlob # NoBlob
     THEN /\ currentVideoBlob' = originalVideoBlob
          /\ videoSrc' = [blob |-> originalVideoBlob, loaded |-> FALSE]
          /\ originalVideoBlob' = NoBlob
     ELSE UNCHANGED << currentVideoBlob, videoSrc, originalVideoBlob >>
  /\ trimmerVisible' = FALSE
  /\ UNCHANGED << statusText, ffmpeg, tpc, startLeft, endLeft, trimmerInitialized >>
  /\ TrimFrame

\* A click on the trimmer's Apply button, up to the first await of the try block:
\* the times are read from the handles
TrimApply ==
  /\ NoMicrotask
  /\ view = "generate" /\ trimmerVisible
  /\ tpc = "idle"
  /\ previewAttached' = FALSE
  /\ IF ffmpeg \in {"null", "importing"} \/ originalVideoBlob = NoBlob
     THEN UNCHANGED << statusText, tpc >>
     ELSE IF LessEq(TimeAt(endLeft, VideoDuration), TimeAt(startLeft, VideoDuration))
     THEN statusText' = "End time must be after start time." /\ UNCHANGED tpc
     ELSE statusText' = "Trimming video..." /\ tpc' = "trimming"
  /\ UNCHANGED << currentVideoBlob, videoSrc, originalVideoBlob, ffmpeg, trimmerVisible,
                  startLeft, endLeft, trimmerInitialized >>
  /\ TrimFrame

\* ffmpeg wrote, trimmed and read the file: the trimmed blob of `size` bytes is shown
TrimSucceeds(size) ==
  /\ NoMicrotask
  /\ tpc = "trimming" /\ ffmpeg = "loaded"
  /\ currentVideoBlob' = Blob("video", originalVideoBlob.sub, size)
  /\ videoSrc' = [blob |-> Blob("video", originalVideoBlob.sub, size), loaded |-> FALSE]
  /\ trimmerVisible' = FALSE
  /\ statusText' = "Trim applied successfully."
  /\ tpc' = "idle"
  /\ UNCHANGED << originalVideoBlob, ffmpeg, startLeft, endLeft, previewAttached,
                  trimmerInitialized >>
  /\ TrimFrame

\* an ffmpeg call rejects (it always does on an instance that never loaded)
TrimFails ==
  /\ NoMicrotask
  /\ tpc = "trimming"
  /\ statusText' = "Error trimming video."
  /\ tpc' = "idle"
  /\ UNCHANGED << currentVideoBlob, videoSrc, originalVideoBlob, ffmpeg, trimmerVisible,
                  startLeft, endLeft, previewAttached, trimmerInitialized >>
  /\ TrimFrame

\* where the pointer is during a drag, in percent of the timeline's width: left
\* of the timeline, on it, right of it
PointerPercents == {-20, 0, 50, 130}
\* the sizes of a trimmed video
TrimmedSizes == {3}

\* the steps of the trimmer
TrimSteps ==
  \/ TrimClick
  \/ FFmpegImported
  \/ FFmpegImportFails
  \/ FFmpegLoaded
  \/ FFmpegLoadFails
  \/ TrimCancel
  \/ TrimApply
  \/ \E n \in TrimmedSizes : TrimSucceeds(n)
  \/ TrimFails

\* -------------------------------------------------------- the API key dialog
KeyFrame ==
  UNCHANGED << db, store, keyGen, txq, base64data, UploadVars, StyleVars, currentVideoBlob,
               selectedMusicStyle, audioChecked, disabled, loading, videoSrc,
               listeners, currentSortOrder, view, libraryCards, nSub, basePrompt,
               pc, call, progressCalls, observed, result, lpc, unhandled, sortIn,
               sortUsed, addResolved, sortAfter, trimButtonHidden, TrimVars >>

\* A click on the settings button: openApiKeyModal(false)
OpenSettings ==
  /\ NoMicrotask
  /\ apiKeyModal' = "open"
  /\ UNCHANGED << apiKey, storedKey, envKey, statusText >>
  /\ KeyFrame

\* A click on the dialog's Cancel button, which is hidden after openApiKeyModal(true)
CancelApiKey ==
  /\ NoMicrotask
  /\ apiKeyModal = "open"
  /\ apiKeyModal' = "hidden"
  /\ UNCHANGED << apiKey, storedKey, envKey, statusText >>
  /\ KeyFrame

\* A click on the dialog's Save button with `input` in the key box: saveApiKey()
SaveApiKey(input) ==
  /\ NoMicrotask
  /\ apiKeyModal # "hidden"
  /\ IF Trim(input) # ""
     THEN /\ apiKey' = Trim(input)
          /\ storedKey' = Trim(input)
          /\ apiKeyModal' = "hidden"
          /\ UNCHANGED envKey
          /\ statusText' = "API Key saved successfully."
     ELSE /\ statusText' = "Please enter a valid API key."
          /\ UNCHANGED << apiKey, storedKey, envKey, apiKeyModal >>
  /\ KeyFrame

\* The timer saveApiKey set fires after 3000 ms: the notice is cleared if still shown
SavedNoticeExpires ==
  /\ NoMicrotask
  /\ statusText = "API Key saved successfully."
  /\ statusText' = ""
  /\ UNCHANGED << apiKey, storedKey, envKey, apiKeyModal >>
  /\ KeyFrame

\* ------------------------------------------------------------ the inputs
\* what the user types into the prompt box
PromptTexts == {"", " ", "cat"}
\* data-music of the music buttons
MusicStyles == {"none", "cinematic"}
\* the handles the remote API answers with in the application runs
AppHandles == {NotDone(TRUE, Num(20)), Done(1, FALSE, ""), Done(0, TRUE, "X")}
\* the errors a remote call rejects with in the application runs
AppErrors == {"quota exceeded"}
\* the download responses in the application runs
AppResponses == {Response(TRUE, "OK", FALSE, ""),
                 Response(FALSE, "Forbidden", TRUE, "bad key")}
\* the reasons createThumbnail rejects with
ThumbnailErrors == {"Could not get canvas context"}
\* the errors of an IndexedDB request
StoreErrors == {"QuotaExceededError"}
\* byte lengths of the blobs the environment produces
BlobSizes == {7}
\* what Date.now() reads
Times == {100, 200, 300}

\* ----------------------------------------------------- the application
\* The state after DOMContentLoaded on a fresh profile: initDB() has asked for the
\* database, loadApiKey() has found a key or none, showView('generate')
AppStart(storedKeys, envKeys) ==
  /\ storedKey \in storedKeys
  /\ envKey \in envKeys
  /\ apiKey = LoadedKey(storedKey, envKey)
  /\ db = "opening"
  /\ store = << >>
  /\ keyGen = 0
  /\ txq = << >>
  /\ base64data = ""
  /\ tab = "text"
  /\ reading = {}
  /\ selectedStylePrefix = ""
  /\ customStyleValue = ""
  /\ customActive = FALSE
  /\ currentVideoBlob = NoBlob
  /\ selectedMusicStyle = "none"
  /\ audioChecked = FALSE
  /\ disabled = [c \in Controls |-> FALSE]
  /\ loading = FALSE
  /\ statusText = ""
  /\ videoSrc = [blob |-> NoBlob, loaded |-> FALSE]
  /\ listeners = {}
  /\ currentSortOrder = "newest"
  /\ view = "generate"
  /\ libraryCards = << >>
  /\ nSub = 0
  /\ basePrompt = [s \in Subs |-> ""]
  /\ pc = [s \in Subs |-> "idle"]
  /\ call = [s \in Subs |-> NoCall]
  /\ progressCalls = [s \in Subs |-> << >>]
  /\ observed = [s \in Subs |-> << >>]
  /\ result = [s \in Subs |-> Pending]
  /\ lpc = [s \in Subs |-> "none"]
  /\ unhandled = {}
  /\ sortIn = << >>
  /\ sortUsed = "newest"
  /\ addResolved = {}
  /\ sortAfter = {}
  /\ apiKeyModal = LoadApiKeyModal(apiKey)
  /\ trimButtonHidden = TRUE
  /\ originalVideoBlob = NoBlob
  /\ ffmpeg = "null"
  /\ trimmerVisible = FALSE
  /\ tpc = "idle"
  /\ startLeft = -1
  /\ endLeft = -1
  /\ previewAttached = FALSE
  /\ trimmerInitialized = FALSE

Init == AppStart({"", "k1"}, {""})

\* the steps of one generateContent call, with the answers of the remote API
\* drawn from the given sets
PollerSteps(handles, errors, responses) ==
  \E s \in Subs :
    \/ \E h \in handles : SubmitReturns(s, h)
    \/ \E e \in errors : SubmitFails(s, e)
    \/ DelayElapsed(s, PollDelayMs)
    \/ \E h \in handles : StatusReturns(s, h)
    \/ \E e \in errors : StatusFails(s, e)
    \/ \E r \in responses : DownloadReturns(s, r)
    \/ \E e \in errors : DownloadFails(s, e)
    \/ ErrorBodyRead(s)
    \/ \E n \in BlobSizes : BlobReturns(s, n)
    \/ HandlerResume(s)

\* the steps of the 'loadeddata' listener and of the store
SaveSteps(times) ==
  \/ VideoLoaded
  \/ \E s \in Subs, n \in BlobSizes, t \in times : ThumbnailReturns(s, n, t)
  \/ \E s \in Subs, e \in ThumbnailErrors : ThumbnailFails(s, e)
  \/ AddSucceeds
  \/ \E e \in StoreErrors : AddFails(e)
  \/ TxnCommits
  \/ TxnAborts

\* The application: generate clicks, the poller, the listener that saves the
\* video, the database, and the library view with its play buttons
Next ==
  \/ \E text \in PromptTexts : ClickGenerate(text)
  \/ PollerSteps(AppHandles, AppErrors, AppResponses)
  \/ SaveSteps({100})
  \/ DBOpenSucceeds
  \/ DBOpenFails
  \/ \E v \in {"generate", "library"} : ShowView(v)
  \/ GetAllSucceeds
  \/ \E i \in 1..MaxSub : PlayFromLibrary(i)

Spec == Init /\ [][Next]_vars

\* ------------------------------------------------------------ the poller
\* what operation.metadata.progressPercent may hold
ProgressValues == {Undef, Num(-5), Num(0), Num(20), Num(60), Num(150), Str("abc"), Str("60")}
\* every handle the remote API may answer with
PollHandles ==
  {NotDone(TRUE, p) : p \in ProgressValues} \cup {NotDone(FALSE, Undef)}
    \cup {Done(1, FALSE, ""), Done(1, TRUE, "X"), Done(0, FALSE, ""), Done(-1, FALSE, ""),
          Done(0, TRUE, "X"), Done(-1, TRUE, "X"), Done(0, TRUE, "")}
PollErrors == {"fetch failed", "Quota exceeded for this project"}
PollResponses ==
  {Response(TRUE, "OK", FALSE, ""), Response(FALSE, "Forbidden", TRUE, "bad key"),
   Response(FALSE, "Forbidden", TRUE, ""), Response(FALSE, "Not Found", FALSE, "")}

\* one call of generateContent, made by the click handler, under every answer
\* of the remote API
NextPoll ==
  \/ \E text \in {"cat"} : nSub = 0 /\ ClickGenerate(text)
  \/ PollerSteps(PollHandles, PollErrors, PollResponses)

SpecPoll == Init /\ [][NextPoll]_vars

\* ----------------------------------------------------------- the library
LibPrompts == {"cat", "dog"}

\* A record an earlier session stored under key i
OldRecord(i, prompt, t) ==
  Record(i, prompt, Blob("video", 0, 10 * i), Blob("thumbnail", 0, i), t)

\* the stores a returning user's database may hold: keys 1..n, any prompts and
\* timestamps (Date.now() follows the wall clock, which may be set back)
OldStores ==
  UNION {{[i \in 1..n |-> OldRecord(i, f[i][1], f[i][2])] :
            f \in [1..n -> LibPrompts \X Times]} : n \in 0..MaxRecords}

\* the record as it was handed to addVideoToLibrary, before the store gave it a key
Unsaved(rec) == Record(0, rec.prompt, rec.videoBlob, rec.thumbnailBlob, rec.timestamp)

\* A returning user's page after a first generation has succeeded: the click
\* handler has set video.src and registered the listener of submission 1
LibraryPage(stores) ==
  /\ storedKey = "k1"
  /\ envKey = ""
  /\ apiKey = LoadedKey(storedKey, envKey)
  /\ db = "opening"
  /\ store \in stores
  /\ keyGen = Len(store)
  /\ txq = << >>
  /\ base64data = ""
  /\ tab = "text"
  /\ reading = {}
  /\ selectedStylePrefix = ""
  /\ customStyleValue = ""
  /\ customActive = FALSE
  /\ \E n \in BlobSizes :
       /\ currentVideoBlob = Blob("video", 1, n)
       /\ videoSrc = [blob |-> Blob("video", 1, n), loaded |-> FALSE]
       /\ result = [s \in Subs |-> IF s = 1 THEN Resolved(Blob("video", 1, n)) ELSE Pending]
  /\ selectedMusicStyle = "none"
  /\ audioChecked = FALSE
  /\ disabled = [c \in Controls |-> FALSE]
  /\ loading = FALSE
  /\ statusText = ""
  /\ listeners = {1}
  /\ currentSortOrder = "newest"
  /\ view = "generate"
  /\ libraryCards = << >>
  /\ nSub = 1
  /\ basePrompt = [s \in Subs |-> IF s = 1 THEN "cat" ELSE ""]
  /\ pc = [s \in Subs |-> IF s = 1 THEN "finished" ELSE "idle"]
  /\ call = [s \in Subs |-> NoCall]
  /\ progressCalls = [s \in Subs |-> << >>]
  /\ observed = [s \in Subs |-> << >>]
  /\ lpc = [s \in Subs |-> IF s = 1 THEN "armed" ELSE "none"]
  /\ unhandled = {}
  /\ sortIn = << >>
  /\ sortUsed = "newest"
  /\ addResolved = {Unsaved(store[i]) : i \in 1..Len(store)}
  /\ sortAfter = {}
  /\ apiKeyModal = LoadApiKeyModal(apiKey)
  /\ trimButtonHidden = TRUE
  /\ originalVideoBlob = NoBlob
  /\ ffmpeg = "null"
  /\ trimmerVisible = FALSE
  /\ tpc = "idle"
  /\ startLeft = -1
  /\ endLeft = -1
  /\ previewAttached = FALSE
  /\ trimmerInitialized = FALSE

InitLib == LibraryPage(OldStores)

NextLib ==
  \/ SaveSteps(Times)
  \/ DBOpenSucceeds
  \/ DBOpenFails
  \/ \E v \in {"generate", "library"} : ShowView(v)
  \/ \E o \in {"newest", "oldest", "name"} : SortChange(o)
  \/ GetAllSucceeds

SpecLib == InitLib /\ [][NextLib]_vars

\* --------------------------------------------------------- the controls
\* generate clicks and music buttons around one generation after another
NextUI ==
  \/ \E text \in PromptTexts : ClickGenerate(text)
  \/ PollerSteps(AppHandles, AppErrors, AppResponses)
  \/ \E m \in MusicStyles : MusicClick(m)

\* Once generateContent has settled, the continuation of the await is a queued
\* microtask: it runs
FairSpec == Init /\ [][NextUI]_vars /\ WF_vars(\E s \in Subs : HandlerResume(s))

\* ------------------------------------------------- the store and the player
\* what touches the player's blob or the store once a generation has succeeded:
\* the saving listener, the library with its play buttons, and the trimmer
NextStore ==
  \/ SaveSteps({100})
  \/ DBOpenSucceeds
  \/ \E v \in {"generate", "library"} : ShowView(v)
  \/ \E o \in {"oldest"} : SortChange(o)
  \/ GetAllSucceeds
  \/ \E i \in 1..(MaxRecords + 1) : PlayFromLibrary(i)
  \/ TrimSteps

\* the page of a user who has stored one video before
InitStore == LibraryPage({<< OldRecord(1, "dog", 300) >>})

SpecStore == InitStore /\ [][NextStore]_vars

\* ------------------------------------------- the user during a generation
\* what the user types into the key box of the dialog
KeyInputs == {"", " k2 "}

\* what the user can do while generations run: the API key dialog and the nav items
UserSteps ==
  \/ OpenSettings
  \/ CancelApiKey
  \/ \E input \in KeyInputs : SaveApiKey(input)
  \/ SavedNoticeExpires
  \/ \E v \in {"generate", "library"} : ShowView(v)

\* one generation, and the user
NextUser ==
  \/ \E text \in {"cat"} : nSub = 0 /\ ClickGenerate(text)
  \/ PollerSteps(AppHandles, AppErrors, AppResponses)
  \/ UserSteps

\* Every awaited call of generateContent is answered and every timer fires; the
\* API answers done after at most MaxPolls not-done handles
FairPollSpec ==
  Init /\ [][NextUser]_vars /\ WF_vars(PollerSteps(AppHandles, AppErrors, AppResponses))

\* ------------------------------------------------- failures and the key
\* what the remote API answers to a request made with a key it does not accept
InvalidKeyMessages ==
  {"API key not valid. Please pass a valid API key.",
   "API key expired. Please renew the API key."}

\* the errors a remote call rejects with: a key error, a quota error, a JSON
\* error text, a network error
KeyErrors ==
  InvalidKeyMessages \cup {"Quota exceeded for this project",
                           JsonErrorText("Model overloaded"), "fetch failed"}

\* the download responses: the video, or a JSON error body about the key
KeyResponses ==
  {Response(TRUE, "OK", FALSE, "")}
    \cup {Response(FALSE, "Forbidden", TRUE, m) : m \in InvalidKeyMessages}

\* generations with and without a key, failing in every way, and the key dialog
NextKey ==
  \/ \E text \in {"", "cat"} : ClickGenerate(text)
  \/ PollerSteps(AppHandles, KeyErrors, KeyResponses)
  \/ OpenSettings
  \/ CancelApiKey
  \/ \E input \in KeyInputs : SaveApiKey(input)
  \/ SavedNoticeExpires

SpecKey == Init /\ [][NextKey]_vars

\* ------------------------------------------------- music and templates
\* data-style of the template cards
TemplateStyles == {"anime"}

\* generations, the music buttons, the template cards and the audio switch
NextMusic ==
  \/ \E text \in PromptTexts : ClickGenerate(text)
  \/ PollerSteps(AppHandles, AppErrors, AppResponses)
  \/ \E m \in MusicStyles : MusicClick(m)
  \/ \E st \in TemplateStyles, b \in BOOLEAN, m \in MusicStyles : TemplateClick(st, b, m)
  \/ AudioToggle
  \/ \E v \in {"generate", "templates"} : ShowView(v)

SpecMusic == Init /\ [][NextMusic]_vars

\* --------------------------------------------------------- the upload form
\* the files the user picks
Files == {File("image/png", "iVBO")}

\* generations, the two tabs and the file input
NextUpload ==
  \/ \E text \in PromptTexts : ClickGenerate(text)
  \/ PollerSteps(AppHandles, AppErrors, AppResponses)
  \/ ImageTabClick
  \/ TextTabClick
  \/ \E f \in Files : UploadChange(f)
  \/ \E f \in Files : ReadEnds(f)
  \/ \E f \in Files : ReadFails(f)

SpecUpload == Init /\ [][NextUpload]_vars

\* --------------------------------------------------- the player and the trimmer
\* a video in the player, the trimmer and its handles
NextTrim ==
  \/ VideoLoaded
  \/ TrimSteps
  \/ \E isStartHandle \in BOOLEAN, p \in PointerPercents : PointerMove(isStartHandle, p)

SpecTrim == InitStore /\ [][NextTrim]_vars

\* ------------------------------------------------------ the key at page load
\* what local storage holds at page load: nothing, a blank, a key
StoredKeys == {"", " ", "k1"}
\* what process.env.API_KEY holds: nothing, a blank, a key
EnvKeys == {"", " ", "k3"}

\* page loads with every content of local storage and of the environment
InitKeys == AppStart(StoredKeys, EnvKeys)

\* one generation and the user, after any page load
SpecLoad == InitKeys /\ [][NextUser]_vars

\* ============================================================ properties
\* the last handle generateContent has been answered with
LastHandle(s) == observed[s][Len(observed[s])]

\* every handle before the last carries a numeric metadata.progressPercent
NumericProgress(s) ==
  \A i \in 1..(Len(observed[s]) - 1) :
    observed[s][i].hasMeta /\ observed[s][i].progressPercent.t = "number"

\* C1: when generateContent has been answered with n not-done handles of
\* progress p1..pn and then a done handle with a non-empty video list, the
\* progress callback has been called exactly n+1 times, with p1, ..., pn, 100 in
\* that order, and this already holds when the download starts, hence before
\* the promise resolves.
C1_ProgressCallsThenHundred ==
  \A s \in Subs :
    (/\ observed[s] # << >>
     /\ LastHandle(s).done /\ LastHandle(s).videos > 0
     /\ NumericProgress(s))
    => progressCalls[s] =
         [i \in 1..Len(observed[s]) |->
            IF i < Len(observed[s]) THEN observed[s][i].progressPercent.n ELSE 100]

\* generateContent has resolved after the handles not-done(20), not-done(60), done
C1_Witness ==
  \E s \in Subs :
    /\ pc[s] = "settled" /\ result[s].kind = "resolved"
    /\ Len(observed[s]) = 3
    /\ observed[s][1].progressPercent = Num(20)
    /\ observed[s][2].progressPercent = Num(60)
    /\ progressCalls[s] = << 20, 60, 100 >>

\* the submission whose listener built the record: its thumbnail carries it
SavedBy(rec) == rec.thumbnailBlob.sub

\* C2: the 'loadeddata' listener that saves a video exists only for a submission
\* whose generateContent resolved, and every record requested to be added or
\* stored in this session belongs to such a submission and holds a video blob;
\* a submission whose generateContent failed has no listener and no record.
C2_RecordOnlyAfterResolve ==
  /\ \A s \in Subs : lpc[s] # "none" => result[s].kind = "resolved"
  /\ \A i \in 1..Len(txq) :
       txq[i].kind = "add" =>
         /\ result[txq[i].owner].kind = "resolved"
         /\ txq[i].rec.videoBlob.kind = "video"
  /\ \A i \in 1..Len(store) :
       /\ SavedBy(store[i]) \in Subs
       /\ result[SavedBy(store[i])].kind = "resolved"
       /\ store[i].videoBlob.kind = "video"

\* one submission failed, another one's record is stored
C2_Witness ==
  \E s, f \in Subs :
    /\ result[f].kind = "failed" /\ pc[f] = "finished"
    /\ \E i \in 1..Len(store) : SavedBy(store[i]) = s
    /\ \A i \in 1..Len(store) : SavedBy(store[i]) # f

\* generateContent was answered with a done handle without videos
DoneWithoutVideos(s) ==
  /\ observed[s] # << >>
  /\ LastHandle(s).done
  /\ LastHandle(s).videos <= 0

\* C3: a done handle whose generatedVideos is undefined or empty and whose
\* embedded error has message X makes generateContent fail with message X.
C3_EmbeddedErrorMessage ==
  \A s \in Subs :
    (DoneWithoutVideos(s) /\ LastHandle(s).hasError /\ LastHandle(s).errorMessage # "")
    => /\ pc[s] = "settled"
       /\ result[s].kind = "failed"
       /\ result[s].message = LastHandle(s).errorMessage

\* generatedVideos undefined, embedded error "X", after one round of polling
C3_Witness ==
  \E s \in Subs :
    /\ DoneWithoutVideos(s) /\ LastHandle(s).videos = -1 /\ Len(observed[s]) = 2
    /\ LastHandle(s).hasError /\ LastHandle(s).errorMessage = "X"
    /\ result[s].kind = "failed" /\ result[s].message = "X"

\* C4: a done handle whose generatedVideos is undefined or empty and that
\* carries no error makes generateContent fail with 'No videos generated'
\* without any download having been started.
C4_NoVideosGenerated ==
  \A s \in Subs :
    (DoneWithoutVideos(s) /\ ~LastHandle(s).hasError)
    => /\ pc[s] = "settled"
       /\ result[s].kind = "failed"
       /\ result[s].message = "No videos generated"
       /\ call[s].nDownload = 0

\* generatedVideos empty, no embedded error
C4_Witness ==
  \E s \in Subs :
    /\ DoneWithoutVideos(s) /\ LastHandle(s).videos = 0 /\ ~LastHandle(s).hasError
    /\ result[s].message = "No videos generated"

\* C5: when the download answered with a non-ok response whose body is JSON,
\* generateContent fails with the body's error.message when it has one, and with
\* 'Failed to fetch video: <statusText>' when it has none.
C5_DownloadErrorMessage ==
  \A s \in Subs :
    (pc[s] = "settled" /\ ~call[s].res.ok /\ call[s].res.isJson)
    => /\ result[s].kind = "failed"
       /\ result[s].message =
            IF call[s].res.errorMessage # ""
            THEN call[s].res.errorMessage
            ELSE "Failed to fetch video: " \o call[s].res.statusText

\* the download answered 403 Forbidden with body {"error":{"message":"bad key"}}
C5_Witness ==
  \E s \in Subs :
    /\ pc[s] = "settled" /\ ~call[s].res.ok /\ call[s].res.isJson
    /\ call[s].res.statusText = "Forbidden" /\ call[s].res.errorMessage = "bad key"
    /\ result[s].kind = "failed" /\ result[s].message = "bad key"

\* record `got`, returned by getAllVideos, is record `r` given to addVideoToLibrary
SameRecord(got, r) ==
  /\ got.id > 0
  /\ got.prompt = r.prompt
  /\ got.timestamp = r.timestamp
  /\ got.videoBlob.size = r.videoBlob.size
  /\ got.thumbnailBlob.size = r.thumbnailBlob.size

\* C6: every record whose addVideoToLibrary promise had resolved when
\* getAllVideos was called is among the records getAllVideos returned, with the
\* same prompt, timestamp and blob sizes and a store-assigned id.
C6_AddThenList ==
  \A r \in sortAfter : \E i \in 1..Len(sortIn) : SameRecord(sortIn[i], r)

\* the timestamps of a list of records
Timestamps(videos) == [i \in 1..Len(videos) |-> videos[i].timestamp]

\* seq holds the same records as arr, each as often
SameRecords(seq, arr) ==
  /\ Len(seq) = Len(arr)
  /\ \A x \in {arr[i] : i \in 1..Len(arr)} :
       Cardinality({i \in 1..Len(seq) : seq[i] = x})
         = Cardinality({i \in 1..Len(arr) : arr[i] = x})

\* C7: under sort order 'oldest' the library shows the records getAllVideos
\* returned, all of them, in ascending order of timestamp, whatever order they
\* were returned in.
C7_OldestAscending ==
  sortUsed = "oldest" =>
    /\ SameRecords(libraryCards, sortIn)
    /\ \A i, j \in 1..Len(libraryCards) :
         i < j => libraryCards[i].timestamp <= libraryCards[j].timestamp

\* records with timestamps [300, 100, 200] are shown as [100, 200, 300]
C7_Witness ==
  /\ sortUsed = "oldest"
  /\ Timestamps(sortIn) = << 300, 100, 200 >>
  /\ Timestamps(libraryCards) = << 100, 200, 300 >>

\* a generateContent call of submission s is in flight, up to the handler's
\* finally block
InFlight(s) ==
  pc[s] \in {"submit", "delay", "status", "download", "errbody", "blob", "settled"}

\* C8: while a submission is in flight the generate button is disabled and the
\* loading state is shown, and at most one submission is in flight.
C8_OneLoopInFlight ==
  /\ Cardinality({s \in Subs : InFlight(s)}) <= 1
  /\ (\E s \in Subs : InFlight(s)) => disabled["generateButton"] /\ loading

\* a second submission polls, after the first one has finished
C8_Witness ==
  /\ nSub = 2
  /\ pc[1] = "finished" /\ pc[2] = "delay"
  /\ disabled["generateButton"]

\* the idle UI: no loading state, every control of allInputs enabled, the audio
\* switch only when no music style is selected
UIIdle ==
  /\ ~loading
  /\ \A c \in Controls :
       (c = "audioSwitch" /\ selectedMusicStyle # "none") \/ ~disabled[c]

\* C9: whenever the generateContent call of an accepted submission has settled,
\* resolved or failed, the UI eventually is idle again.
C9_EventuallyIdle ==
  \A s \in Subs : (pc[s] = "settled") ~> (pc[s] = "finished" /\ UIIdle)

\* the UI is idle after a resolved and after a failed generation, the second one
\* with a music style selected and the audio switch left disabled
C9_Witness ==
  /\ UIIdle
  /\ pc[1] = "finished" /\ pc[2] = "finished"
  /\ result[1].kind = "resolved" /\ result[2].kind = "failed"
  /\ selectedMusicStyle # "none" /\ disabled["audioSwitch"]

\* C10: no error raised while the generated video is saved (a createThumbnail
\* failure, 'DB not initialized', a failed add) escapes as an unhandled
\* rejection of the 'loadeddata' listener.
C10_SaveErrorsCaught ==
  \A u \in unhandled : u.from # "loadeddata"

\* the submit call or a status fetch of submission s has failed: generateContent
\* has settled without having seen a done handle
CallFailed(s) ==
  /\ pc[s] = "settled"
  /\ call[s].nSubmit > 0
  /\ observed[s] = << >> \/ ~LastHandle(s).done

\* C11: the request of a submission is submitted once only, and when the submit
\* call or a status fetch has failed, generateContent has failed with that very
\* error, with one status fetch and one progress callback per not-done handle
\* seen before (none after the failure, none with the final 100) and without
\* a download.
C11_FailureEndsTheCall ==
  \A s \in Subs :
    /\ call[s].nSubmit <= 1
    /\ CallFailed(s) =>
         /\ result[s].kind = "failed"
         /\ result[s].message \in PollErrors
         /\ call[s].nStatus = Len(observed[s])
         /\ Len(progressCalls[s]) = Len(observed[s])
         /\ \A i \in 1..Len(progressCalls[s]) :
              progressCalls[s][i] = ProgressOf(observed[s][i])
         /\ call[s].nDownload = 0

\* the first status fetch failed after the submit call returned not-done(20)
C11_Witness ==
  \E s \in Subs :
    /\ CallFailed(s)
    /\ Len(observed[s]) = 1 /\ call[s].nStatus = 1
    /\ result[s].message = "fetch failed"
    /\ progressCalls[s] = << 20 >>

\* generateContent of submission s is at one of its awaits
Polling(s) == pc[s] \in {"submit", "delay", "status", "download", "errbody", "blob"}

C13_ResolvedMeansCommitted ==
  \A r \in addResolved : \E i \in 1..Len(store) : SameRecord(store[i], r)

\* the listener of submission s has been rejected with `reason`
RejectedWith(s, reason) ==
  lpc[s] = "rejected" /\ Rejection("loadeddata", s, reason) \in unhandled

\* C14: while the database is not open no transaction exists and no record is
\* stored, a listener that reached addVideoToLibrary was rejected with 'DB not
\* initialized', and so was every library load; a listener whose add request
\* failed was rejected with 'Error adding video: ...' and no record of its
\* submission is stored.
C14_StoreUnavailable ==
  /\ db # "open" =>
       /\ txq = << >> /\ store = << >> /\ keyGen = 0
       /\ \A s \in Subs :
            /\ lpc[s] \notin {"adding"}
            /\ lpc[s] = "rejected" =>
                 \/ RejectedWith(s, "DB not initialized")
                 \/ \E e \in ThumbnailErrors : RejectedWith(s, e)
       /\ view = "library" =>
            Rejection("loadVideosFromLibrary", 0, "DB not initialized") \in unhandled
  /\ \A u \in unhandled :
       (\E e \in StoreErrors : u.reason = "Error adding video: " \o e) =>
         /\ lpc[u.sub] = "rejected"
         /\ \A i \in 1..Len(store) : SavedBy(store[i]) # u.sub

\* the open failed, a generated video could not be saved, and the library was
\* opened without success
C14_Witness ==
  /\ db = "failed"
  /\ \E s \in Subs : RejectedWith(s, "DB not initialized")
  /\ view = "library"
  /\ Rejection("loadVideosFromLibrary", 0, "DB not initialized") \in unhandled
  /\ libraryCards = << >>

\* C15: no step removes or changes a stored record: the store after a step
\* begins with the store before it, and the ids of its records are pairwise
\* distinct.
C15_StoreOnlyGrows ==
  [][/\ Len(store') >= Len(store)
     /\ \A i \in 1..Len(store) : store'[i] = store[i]
     /\ \A i, j \in 1..Len(store') : i # j => store'[i].id # store'[j].id]_vars

\* a second record is stored, a library video was played and a trim was applied
C15_Witness ==
  /\ Len(store) = 2
  /\ store[1] = OldRecord(1, "dog", 300)
  /\ currentVideoBlob.size \in TrimmedSizes
  /\ libraryCards # << >>

\* C16: every value the progress callback was invoked with lies in 0..100.
C16_ProgressInRange ==
  \A s \in Subs : \A i \in 1..Len(progressCalls[s]) : progressCalls[s][i] \in 0..100

\* a handle that is not done and carries no progress: no metadata, no
\* progressPercent, or a progressPercent that Number turns into NaN
NoProgress(h) ==
  /\ ~h.done
  /\ ~h.hasMeta \/ Number(h.progressPercent).t # "number"

\* C17: the i-th handle of a call, when it is not done and carries no progress,
\* made the i-th invocation of the progress callback one with 0, and the loop
\* went on: the call is in the delay that follows it or has made its i-th
\* status fetch.
C17_NoProgressIsZero ==
  \A s \in Subs : \A i \in 1..Len(observed[s]) :
    NoProgress(observed[s][i]) =>
      /\ progressCalls[s][i] = 0
      /\ \/ i = Len(observed[s]) /\ pc[s] = "delay"
         \/ call[s].nStatus >= i

\* a call that met a handle without metadata, then one with a progressPercent
\* that is no number, then a done handle, and resolved
C17_Witness ==
  \E s \in Subs :
    /\ Len(observed[s]) = 3
    /\ observed[s][1] = NotDone(FALSE, Undef)
    /\ observed[s][2] = NotDone(TRUE, Str("abc"))
    /\ progressCalls[s] = << 0, 0, 100 >>
    /\ result[s].kind = "resolved"

\* C19: when the download answered with a non-ok response whose body is not
\* JSON, generateContent fails with the text of that body as its message.
C19_RawTextFallback ==
  \A s \in Subs :
    (pc[s] = "settled" /\ call[s].nDownload > 0 /\ ~call[s].res.ok /\ ~call[s].res.isJson)
    => /\ result[s].kind = "failed"
       /\ result[s].message = BodyText(call[s].res)

\* the catch block of the click handler runs for submission s in this step
CatchRuns(s) ==
  pc[s] = "settled" /\ pc'[s] = "finished" /\ result[s].kind = "failed"

\* the message the handler shows for rawMessage when it classifies by the
\* substrings 'api key' and 'quota' alone
SubstringMessage(rawMessage) ==
  IF Includes(ToLowerCase(rawMessage), "api key")
  THEN "Your API Key is not valid. Please check it in the settings."
  ELSE IF Includes(ToLowerCase(rawMessage), "quota")
  THEN "You have exceeded your API quota. Please check your plan and billing details."
  ELSE IF JSONParse(rawMessage).ok THEN JSONParse(rawMessage).message
  ELSE rawMessage

\* C18: the handler shows a failure whose message contains 'api key' as the
\* API-key error, one whose message contains 'quota' as the quota message, and
\* every other as its message, or as the error.message of a JSON message.
C18_ClassifiedBySubstring ==
  [][\A s \in Subs :
       CatchRuns(s) => statusText' = "Error: " \o SubstringMessage(result[s].message)]_vars

\* C20: while no key is set no request is sent, a generate click then opens the
\* key dialog, and the handler opens the dialog on every failure whose message
\* is one the remote API gives for a key it does not accept.
C20_KeyFailuresOpenSettings ==
  [][/\ apiKey = "" =>
          /\ nSub' = nSub /\ call' = call
          /\ (statusText' # statusText
              /\ statusText' = "Please configure your API Key first.")
               => apiKeyModal' # "hidden"
     /\ \A s \in Subs :
          (CatchRuns(s) /\ result[s].message \in InvalidKeyMessages)
            => apiKeyModal' # "hidden"]_vars

\* the number of not-done handles generateContent has been answered with
NotDoneSeen(s) == Cardinality({i \in 1..Len(observed[s]) : ~observed[s][i].done})

\* C23: every handle before the last one seen is not done and each handle seen
\* was followed by one progress callback; the status fetches issued are as many
\* as the not-done handles seen, less the one still due while the delay after
\* the last handle runs; and a status fetch is issued only by the end of a
\* delay, one at a time, after the callback for the handle in hand.
C23_OneFetchPerNotDoneHandle ==
  /\ [](\A s \in Subs :
          /\ \A i \in 1..(Len(observed[s]) - 1) : ~observed[s][i].done
          /\ Len(progressCalls[s]) = Len(observed[s])
          /\ call[s].nStatus = NotDoneSeen(s) - (IF pc[s] = "delay" THEN 1 ELSE 0))
  /\ [][\A s \in Subs :
          call'[s].nStatus > call[s].nStatus =>
            /\ pc[s] = "delay" /\ pc'[s] = "status"
            /\ call'[s].nStatus = call[s].nStatus + 1
            /\ ~LastHandle(s).done
            /\ progressCalls[s][Len(progressCalls[s])] = ProgressOf(LastHandle(s))]_vars

\* two not-done handles, two status fetches, a done handle, and the download
\* under way
C23_Witness ==
  \E s \in Subs :
    /\ pc[s] = "download"
    /\ Len(observed[s]) = 3 /\ LastHandle(s).done
    /\ NotDoneSeen(s) = 2 /\ call[s].nStatus = 2

\* C27: the key in the download URL of a generateContent call is the key its
\* client was built with.
C27_DownloadUsesSubmitKey ==
  \A s \in Subs : call[s].nDownload > 0 => call[s].urlKey = call[s].key

\* the validation message of the click handler
ValidationMessage == "Please enter a video description or upload an image."

C26_RecordPairsPromptAndVideo ==
  /\ \A i \in 1..Len(store) :
       SavedBy(store[i]) \in Subs =>
         /\ result[SavedBy(store[i])].kind = "resolved"
         /\ store[i].prompt = basePrompt[SavedBy(store[i])]
         /\ store[i].videoBlob = result[SavedBy(store[i])].blob
  /\ \A i, j \in 1..Len(store) :
       (i # j /\ SavedBy(store[i]) \in Subs) => SavedBy(store[i]) # SavedBy(store[j])

\* C21: at page load the key is the stored key when that is not blank, else
\* the environment key when that is not blank, else none, and the dialog is
\* open in initial-setup mode exactly when no key was found; the key is at all
\* times what loadApiKey would find; a save with a blank input changes neither
\* the key nor local storage and leaves the dialog open.
C21_KeyLoadedAndBlankSave ==
  /\ apiKey = (IF Trim(storedKey) # "" THEN storedKey
               ELSE IF Trim(envKey) # "" THEN envKey ELSE "")
  /\ apiKeyModal = (IF apiKey = "" THEN "initial" ELSE "hidden")
  /\ [](apiKey = (IF Trim(storedKey) # "" THEN storedKey
                  ELSE IF Trim(envKey) # "" THEN envKey ELSE ""))
  /\ [][(statusText' = "Please enter a valid API key."
         /\ statusText # "Please enter a valid API key.")
          => /\ apiKeyModal # "hidden"
             /\ UNCHANGED << apiKey, storedKey, apiKeyModal >>]_vars

\* a blank stored key was passed over for the environment key, and a save with
\* a blank input was refused with the dialog left open
C21_Witness ==
  /\ storedKey = " " /\ envKey = "k3" /\ apiKey = "k3"
  /\ statusText = "Please enter a valid API key."
  /\ apiKeyModal = "open"

\* the prompts of a list of records
Prompts(videos) == [i \in 1..Len(videos) |-> videos[i].prompt]

\* C22: the library shows the records getAllVideos returned, each exactly once,
\* in descending order of timestamp under sort order 'newest' and in
\* localeCompare order of the prompts under sort order 'name'.
C22_LibraryIsSortedPermutation ==
  /\ SameRecords(libraryCards, sortIn)
  /\ sortUsed = "newest" =>
       \A i, j \in 1..Len(libraryCards) :
         i < j => libraryCards[i].timestamp >= libraryCards[j].timestamp
  /\ sortUsed = "name" =>
       \A i, j \in 1..Len(libraryCards) :
         i < j => LocaleCompare(libraryCards[i].prompt, libraryCards[j].prompt) <= 0

\* records with timestamps [100, 300, 200] are shown as [300, 200, 100] under
\* the default order
C22_Witness ==
  /\ sortUsed = "newest" /\ currentSortOrder = "newest"
  /\ Timestamps(sortIn) = << 100, 300, 200 >>
  /\ Timestamps(libraryCards) = << 300, 200, 100 >>
  /\ Prompts(sortIn) = << "dog", "cat", "cat" >>

\* no generation is in flight
UIIdleNow == \A s \in Subs : ~InFlight(s)

\* C24: whenever no generation is in flight the audio switch is disabled
\* exactly when a music style other than 'none' is selected, and is then
\* checked; and a request sent while a music style is selected asks for audio.
C24_AudioLockedByMusic ==
  /\ [](UIIdleNow =>
          /\ disabled["audioSwitch"] <=> selectedMusicStyle # "none"
          /\ selectedMusicStyle # "none" => audioChecked)
  /\ [][\A s \in Subs :
          (call'[s].nSubmit > call[s].nSubmit /\ selectedMusicStyle # "none")
            => call'[s].generateAudio]_vars

\* after a failed generation under a template's music style the switch is
\* locked and checked, though the user had switched audio off before
C24_Witness ==
  /\ UIIdleNow
  /\ selectedMusicStyle = "cinematic" /\ customActive
  /\ disabled["audioSwitch"] /\ audioChecked
  /\ \E s \in Subs : pc[s] = "finished" /\ result[s].kind = "failed"
                     /\ basePrompt[s] = "anime, cat, with a dramatic, cinematic musical score"

\* C28: a request sent while the text-to-video tab is the selected one carries
\* no reference image.
C28_TextTabSendsNoImage ==
  \A s \in Subs : (InFlight(s) /\ tab = "text") => call[s].imageBytes = ""

\* C25: the step in which loading the transcoder fails leaves the timeline, the
\* preview listeners and the drag handles as they were, and the transcoder is
\* only ever called on an instance that has loaded.
C25_LoadFailureStopsTrimmer ==
  /\ [][(statusText' = "Failed to load trimmer components." /\ ffmpeg' # ffmpeg)
          => UNCHANGED << startLeft, endLeft, previewAttached, trimmerInitialized >>]_vars
  /\ [](tpc = "trimming" => ffmpeg = "loaded")

\* C29: while the trimmer is open with its handles initialised the selection
\* lies within the clip, 0 <= start <= end <= duration, and trim-apply goes on
\* to the transcoder only when end > start.
C29_SelectionWithinClip ==
  /\ []((trimmerVisible /\ previewAttached /\ trimmerInitialized) =>
          /\ LessEq(Num(0), TimeAt(startLeft, VideoDuration))
          /\ LessEq(TimeAt(startLeft, VideoDuration), TimeAt(endLeft, VideoDuration))
          /\ LessEq(TimeAt(endLeft, VideoDuration), VideoDuration))
  /\ [][(tpc = "idle" /\ tpc' = "trimming") =>
          /\ LessEq(TimeAt(startLeft, VideoDuration), TimeAt(endLeft, VideoDuration))
          /\ TimeAt(startLeft, VideoDuration) # TimeAt(endLeft, VideoDuration)]_vars

====
